---- MODULE Spec2Model ----
(***************************************************************************)
(* A model of the STL ASCII parser of stl-parser (package stl) and of its  *)
(* entry point CountTriangles.                                             *)
(*                                                                         *)
(* Text is modelled at byte level: a line is a sequence of byte values     *)
(* (0..255), a word is the sub-sequence of bytes bufio.ScanWords returns.  *)
(* The line source (bufio.Scanner with ScanLines) is a sequence of lines   *)
(* plus the sticky error the scanner reports after its last line.          *)
(***************************************************************************)
EXTENDS Integers, Sequences, FiniteSets, TLC

\* ------------------------------------------------------------------------
\* Bounds of the model
\* ------------------------------------------------------------------------
MaxFacets == 2      \* facet blocks in the inputs of the edit family
MaxBlocks == 2      \* blocks in the inputs of the block family
MaxNameLen == 2     \* bytes after the header prefix in the header family
MaxCalls == 2       \* calls of CountTriangles in one process

\* ------------------------------------------------------------------------
\* Token identities (const block) and the texts they stand for
\* ------------------------------------------------------------------------
idNone == 0
idSolid == 2
idFacet == 4
idNormal == 8
idOuter == 16
idLoop == 32
idVertex == 64
idEndloop == 128
idEndfacet == 256
idEndsolid == 512

\* idFacet | idEndsolid
idFacetOrEndsolid == idFacet + idEndsolid

idents ==
    (idSolid :> <<115, 111, 108, 105, 100>>) @@
    (idFacet :> <<102, 97, 99, 101, 116>>) @@
    (idNormal :> <<110, 111, 114, 109, 97, 108>>) @@
    (idOuter :> <<111, 117, 116, 101, 114>>) @@
    (idLoop :> <<108, 111, 111, 112>>) @@
    (idVertex :> <<118, 101, 114, 116, 101, 120>>) @@
    (idEndloop :> <<101, 110, 100, 108, 111, 111, 112>>) @@
    (idEndfacet :> <<101, 110, 100, 102, 97, 99, 101, 116>>) @@
    (idEndsolid :> <<101, 110, 100, 115, 111, 108, 105, 100>>)

\* identRegexps[ident].MatchString(word): every pattern is anchored ("^...$"),
\* so a match is equality with the keyword text; the compound pattern
\* ^(facet|endsolid)$ matches either text.
\* Mutant of identRegexps: the pattern for facet or endsolid matches facet
\* only.
identRegexpsMut(ident, word) ==
    IF ident = idFacetOrEndsolid
    THEN word = idents[idFacet]
    ELSE word = idents[ident]

identRegexps(ident, word) ==
    IF ident = idFacetOrEndsolid
    THEN word = idents[idFacet] \/ word = idents[idEndsolid]
    ELSE word = idents[ident]

\* "solid "
expectedASCIIHeaderPrefix == <<115, 111, 108, 105, 100, 32>>

\* The error values.
ErrEOF == [err |-> "File is empty", ident |-> idNone]
ErrInvalidExpectedToken == [err |-> "\"facet\" or \"endsolid\" expected", ident |-> idNone]
ErrInvalidSintax == [err |-> "Invalid sintax", ident |-> idNone]
ErrInvalidFloat == [err |-> "Invalid float", ident |-> idNone]
\* fmt.Errorf(`%w: %s`, errInvalidToken, idents[ident])
errInvalidToken(ident) == [err |-> "Invalid token", ident |-> ident]
\* the error bufio.Scanner.Err() reports for the line source
ErrScanner == [err |-> "scanner error", ident |-> idNone]
\* the error os.Open reports
ErrOpen == [err |-> "open error", ident |-> idNone]

\* ------------------------------------------------------------------------
\* Library functions the parser calls
\* ------------------------------------------------------------------------
\* bytes.HasPrefix
HasPrefix(s, prefix) ==
    Len(s) >= Len(prefix) /\ SubSeq(s, 1, Len(prefix)) = prefix

\* The single-byte white space of bufio.ScanWords (unicode.IsSpace below 128).
\* The one byte above 127 in the inputs is 200, which on its own decodes to
\* no white-space rune.
isSpace(b) == b \in {9, 10, 11, 12, 13, 32}

RECURSIVE SkipSpace(_, _)
SkipSpace(line, i) ==
    IF i <= Len(line) /\ isSpace(line[i]) THEN SkipSpace(line, i + 1) ELSE i

RECURSIVE WordEnd(_, _)
WordEnd(line, i) ==
    IF i <= Len(line) /\ ~isSpace(line[i]) THEN WordEnd(line, i + 1) ELSE i

\* wordScanner.Scan() with the split function bufio.ScanWords on a scanner
\* that has consumed `off` bytes of `line`: skip leading spaces, return the
\* run of non-space bytes, consume the space that ends it.
ScanWords(line, off) ==
    LET start == SkipSpace(line, off + 1)
        stop == WordEnd(line, start)
    IN  IF start > Len(line)
        THEN [ok |-> FALSE, text |-> <<>>, off |-> Len(line)]
        ELSE [ok |-> TRUE, text |-> SubSeq(line, start, stop - 1),
              off |-> IF stop <= Len(line) THEN stop ELSE Len(line)]

\* strconv.ParseFloat(word, 32) on the decimal integer literals: an optional
\* sign followed by one or more digits.  Every other word of the model's
\* inputs (keywords, letters) is a syntax error.  The inputs contain no
\* '.', exponent, hexadecimal, "inf" or "nan" forms and no literal long
\* enough to leave the float32 range.
RECURSIVE DigitsValue(_, _)
DigitsValue(ds, acc) ==
    IF ds = <<>> THEN acc ELSE DigitsValue(Tail(ds), 10 * acc + (Head(ds) - 48))

ParseFloat(word) ==
    LET signed == Len(word) > 0 /\ word[1] \in {43, 45}
        ds == IF signed THEN Tail(word) ELSE word
        wellFormed == Len(ds) > 0 /\ \A k \in 1..Len(ds) : ds[k] \in 48..57
    IN  IF wellFormed
        THEN [err |-> FALSE,
              f |-> IF word[1] = 45 THEN 0 - DigitsValue(ds, 0) ELSE DigitsValue(ds, 0)]
        ELSE [err |-> TRUE, f |-> 0]

\* ------------------------------------------------------------------------
\* The parser
\* ------------------------------------------------------------------------
\* var t Triangle
ZeroTriangle ==
    [Normal |-> <<0, 0, 0>>,
     Vertices |-> <<<<0, 0, 0>>, <<0, 0, 0>>, <<0, 0, 0>>>>,
     Attr |-> 0]

\* Mutant of the loop of extractASCIIString: a control byte (below 32, or
\* 127) ends the name as well.
RECURSIVE extractASCIILoopPrintable(_, _)
extractASCIILoopPrintable(byteData, i) ==
    IF i < Len(byteData) /\ byteData[i + 1] < 127 /\ byteData[i + 1] >= 32
    THEN extractASCIILoopPrintable(byteData, i + 1)
    ELSE i

\* extractASCIIString: the loop counts the leading bytes that are below 128
\* and not 0; i is the number of bytes accepted so far.
RECURSIVE extractASCIILoop(_, _)
extractASCIILoop(byteData, i) ==
    IF i < Len(byteData) /\ byteData[i + 1] < 128 /\ byteData[i + 1] # 0
    THEN extractASCIILoop(byteData, i + 1)
    ELSE i

\* Mutant of extractASCIIString: the loop tests only for bytes of 128 and
\* more, so a 0 byte does not end the name.
RECURSIVE extractASCIILoopMut(_, _)
extractASCIILoopMut(byteData, i) ==
    IF i < Len(byteData) /\ byteData[i + 1] < 128
    THEN extractASCIILoopMut(byteData, i + 1)
    ELSE i

extractASCIIStringMut(byteData) ==
    SubSeq(byteData, 1, extractASCIILoopMut(byteData, 0))

extractASCIIString(byteData) == SubSeq(byteData, 1, extractASCIILoop(byteData, 0))

\* var p parser.  lineScanner is the number of lines the line scanner has
\* returned, wordScanner the number of bytes of currentLine the word scanner
\* has consumed.  hist and visited are history fields that are not in the
\* program: hist is the list of every error value addError was called with,
\* with the cursor at the time of the call; visited is the list of the
\* places (line, offset of the end of the word) of the words that have
\* been the current word.
zeroParser ==
    [line |-> 0, errors |-> <<>>, currentWord |-> <<>>, currentLine |-> <<>>,
     eof |-> FALSE, lineScanner |-> 0, wordScanner |-> 0,
     HeaderError |-> FALSE, TrianglesSkipped |-> FALSE, hist |-> <<>>,
     visited |-> <<>>]

\* fmt.Errorf("%d: %w", p.line, msg)
Diagnostic(p, msg) == [line |-> p.line, msg |-> msg]

\* errors.Join(e) of a single error is a join holding only e: the previous
\* value of p.errors is not among its arguments.
addError(p, msg) ==
    [p EXCEPT !.errors = <<Diagnostic(p, msg)>>,
              !.hist = Append(@, [line |-> Diagnostic(p, msg).line, msg |-> msg,
                                  at |-> p.lineScanner, off |-> p.wordScanner,
                                  eof |-> p.eof, word |-> p.currentWord])]

\* nextWord and nextLine return the parser after the call and the call's
\* boolean result.  The branch of nextWord for wordScanner.Err() != nil is
\* not reachable: the word scanner reads an in-memory line that the line
\* scanner has already accepted as one token.
RECURSIVE nextWord(_, _), nextLine(_, _)

\* Mutant of nextLine: the line counter counts only the lines that have a
\* word.
nextLineMut(p, s) ==
    IF p.lineScanner < Len(s.lines)
    THEN nextWord([p EXCEPT !.currentLine = s.lines[p.lineScanner + 1],
                            !.lineScanner = @ + 1,
                            !.line = IF ScanWords(s.lines[p.lineScanner + 1], 0).ok
                                     THEN @ + 1 ELSE @,
                            !.wordScanner = 0], s)
    ELSE LET q == IF s.err THEN addError(p, ErrScanner) ELSE p
         IN  [p |-> [q EXCEPT !.currentLine = <<>>, !.currentWord = <<>>,
                              !.eof = TRUE],
              ok |-> FALSE]

\* Mutant of nextWord: the end of the current line ends the stream.
nextWordMut(p, s) ==
    IF p.eof
    THEN [p |-> p, ok |-> FALSE]
    ELSE LET w == ScanWords(p.currentLine, p.wordScanner)
         IN  IF w.ok
             THEN [p |-> [p EXCEPT !.currentWord = w.text, !.wordScanner = w.off,
                                   !.visited = Append(@, [line |-> p.lineScanner,
                                                          off |-> w.off])],
                   ok |-> TRUE]
             ELSE [p |-> [p EXCEPT !.wordScanner = w.off, !.currentLine = <<>>,
                                   !.currentWord = <<>>, !.eof = TRUE],
                   ok |-> FALSE]

nextWord(p, s) ==
    IF p.eof
    THEN [p |-> p, ok |-> FALSE]
    ELSE LET w == ScanWords(p.currentLine, p.wordScanner)
         IN  IF w.ok
             THEN [p |-> [p EXCEPT !.currentWord = w.text, !.wordScanner = w.off,
                                   !.visited = Append(@, [line |-> p.lineScanner,
                                                          off |-> w.off])],
                   ok |-> TRUE]
             ELSE nextLine([p EXCEPT !.wordScanner = w.off], s)

nextLine(p, s) ==
    IF p.lineScanner < Len(s.lines)
    THEN nextWord([p EXCEPT !.currentLine = s.lines[p.lineScanner + 1],
                            !.lineScanner = @ + 1,
                            !.line = @ + 1,
                            !.wordScanner = 0], s)
    ELSE LET q == IF s.err THEN addError(p, ErrScanner) ELSE p
         IN  [p |-> [q EXCEPT !.currentLine = <<>>, !.currentWord = <<>>,
                              !.eof = TRUE],
              ok |-> FALSE]

\* Mutant of newParser: the first line is not read.
newParserMut(s) == zeroParser

newParser(s) == nextLine(zeroParser, s).p

isCurrentTokenIdent(p, ident) == identRegexps(ident, p.currentWord)

\* Mutant of consumeToken: the keyword is accepted and not consumed.
consumeTokenMut(p, s, ident) ==
    IF ~identRegexps(ident, p.currentWord)
    THEN [p |-> addError(p, errInvalidToken(ident)), ok |-> FALSE]
    ELSE [p |-> p, ok |-> TRUE]

consumeToken(p, s, ident) ==
    IF ~identRegexps(ident, p.currentWord)
    THEN [p |-> addError(p, errInvalidToken(ident)), ok |-> FALSE]
    ELSE [p |-> nextWord(p, s).p, ok |-> TRUE]

\* Mutant of parseFloat32: a word that is not a number is passed over.
parseFloat32Mut(p, s) ==
    IF p.eof
    THEN [p |-> p, ok |-> FALSE, f |-> 0]
    ELSE LET r == ParseFloat(p.currentWord)
         IN  IF r.err
             THEN [p |-> nextWord(addError(p, ErrInvalidFloat), s).p,
                   ok |-> FALSE, f |-> 0]
             ELSE [p |-> nextWord(p, s).p, ok |-> TRUE, f |-> r.f]

parseFloat32(p, s) ==
    IF p.eof
    THEN [p |-> p, ok |-> FALSE, f |-> 0]
    ELSE LET r == ParseFloat(p.currentWord)
         IN  IF r.err
             THEN [p |-> addError(p, ErrInvalidFloat), ok |-> FALSE, f |-> 0]
             ELSE [p |-> nextWord(p, s).p, ok |-> TRUE, f |-> r.f]

\* Mutant of parseASCIIHeaderLine: the header step goes on to the next word
\* and not to the next line.
parseASCIIHeaderLineMut(p, s, nm) ==
    LET r == IF p.eof
             THEN [p |-> addError(p, ErrEOF), ok |-> FALSE, name |-> nm]
             ELSE IF ~HasPrefix(p.currentLine, expectedASCIIHeaderPrefix)
                  THEN [p |-> addError(p, ErrInvalidSintax), ok |-> FALSE, name |-> nm]
                  ELSE [p |-> p, ok |-> TRUE,
                        name |-> extractASCIIString(
                            SubSeq(p.currentLine, Len(expectedASCIIHeaderPrefix) + 1,
                                   Len(p.currentLine)))]
    IN  [p |-> nextWord(r.p, s).p, ok |-> r.ok, name |-> r.name]

\* Returns the parser after the call, the call's result, and the value of
\* the package variable name after the call (nm is its value before).
parseASCIIHeaderLine(p, s, nm) ==
    LET r == IF p.eof
             THEN [p |-> addError(p, ErrEOF), ok |-> FALSE, name |-> nm]
             ELSE IF ~HasPrefix(p.currentLine, expectedASCIIHeaderPrefix)
                  THEN [p |-> addError(p, ErrInvalidSintax), ok |-> FALSE, name |-> nm]
                  ELSE [p |-> p, ok |-> TRUE,
                        name |-> extractASCIIString(
                            SubSeq(p.currentLine, Len(expectedASCIIHeaderPrefix) + 1,
                                   Len(p.currentLine)))]
    IN  [p |-> nextLine(r.p, s).p, ok |-> r.ok, name |-> r.name]

\* The steps of parseFacet in order.  tok is the keyword a consumeToken step
\* expects, idNone marks a parseFloat32 step, whose value goes to coordinate
\* k of the normal (v = 0) or of vertex v.
parseFacetSteps ==
    << [tok |-> idFacet, v |-> 0, k |-> 0],
       [tok |-> idNormal, v |-> 0, k |-> 0],
       [tok |-> idNone, v |-> 0, k |-> 1],
       [tok |-> idNone, v |-> 0, k |-> 2],
       [tok |-> idNone, v |-> 0, k |-> 3],
       [tok |-> idOuter, v |-> 0, k |-> 0],
       [tok |-> idLoop, v |-> 0, k |-> 0],
       [tok |-> idVertex, v |-> 0, k |-> 0],
       [tok |-> idNone, v |-> 1, k |-> 1],
       [tok |-> idNone, v |-> 1, k |-> 2],
       [tok |-> idNone, v |-> 1, k |-> 3],
       [tok |-> idVertex, v |-> 0, k |-> 0],
       [tok |-> idNone, v |-> 2, k |-> 1],
       [tok |-> idNone, v |-> 2, k |-> 2],
       [tok |-> idNone, v |-> 2, k |-> 3],
       [tok |-> idVertex, v |-> 0, k |-> 0],
       [tok |-> idNone, v |-> 3, k |-> 1],
       [tok |-> idNone, v |-> 3, k |-> 2],
       [tok |-> idNone, v |-> 3, k |-> 3],
       [tok |-> idEndloop, v |-> 0, k |-> 0],
       [tok |-> idEndfacet, v |-> 0, k |-> 0] >>

\* Mutant of facetSkipped: the flag is not set.
facetSkippedMut(q) == q

\* p.TrianglesSkipped = true
facetSkipped(q) == [q EXCEPT !.TrianglesSkipped = TRUE]

\* Mutant of ParseSuccess: the test for endsolid is left out.
ParseSuccessMut(q, s) == [p |-> q, ok |-> ~q.HeaderError /\ ~q.TrianglesSkipped]

\* success := !p.HeaderError && !p.TrianglesSkipped && p.consumeToken(idEndsolid)
\* (&& does not call consumeToken once a flag is set)
\* Mutant of the last statement of Parse: TrianglesSkipped is not looked at.
ParseSuccessSkippedIgnored(q, s) ==
    IF ~q.HeaderError
    THEN consumeToken(q, s, idEndsolid)
    ELSE [p |-> q, ok |-> FALSE]

\* Mutant of the last statement of Parse: endsolid has to be the last word
\* of the input.
ParseSuccessAtEnd(q, s) ==
    IF ~q.HeaderError /\ ~q.TrianglesSkipped
    THEN LET r == consumeToken(q, s, idEndsolid)
         IN  [p |-> r.p, ok |-> r.ok /\ r.p.eof]
    ELSE [p |-> q, ok |-> FALSE]

ParseSuccess(q, s) ==
    IF ~q.HeaderError /\ ~q.TrianglesSkipped
    THEN consumeToken(q, s, idEndsolid)
    ELSE [p |-> q, ok |-> FALSE]

\* Mutant of StoreCoordinate: every coordinate of a vertex goes to its
\* first place.
StoreCoordinateMut(tri, g, f) ==
    IF g.v = 0
    THEN [tri EXCEPT !.Normal[g.k] = f]
    ELSE [tri EXCEPT !.Vertices[g.v][1] = f]

\* *f = float32(f64) for the coordinate a parseFloat32 step writes
StoreCoordinate(tri, g, f) ==
    IF g.v = 0
    THEN [tri EXCEPT !.Normal[g.k] = f]
    ELSE [tri EXCEPT !.Vertices[g.v][g.k] = f]

\* ------------------------------------------------------------------------
\* The calls as wholes: the same code run from call to return
\* ------------------------------------------------------------------------
\* parseFacet from step k on: the parser after the call, the call's result
\* and the triangle it has filled.
RECURSIVE parseFacetCall(_, _, _, _)
parseFacetCall(q, s, tri, k) ==
    IF k > Len(parseFacetSteps)
    THEN [p |-> q, ok |-> TRUE, t |-> tri]
    ELSE LET g == parseFacetSteps[k]
             r == IF g.tok = idNone THEN parseFloat32(q, s)
                  ELSE consumeToken(q, s, g.tok) @@ [f |-> 0]
         IN  IF ~r.ok
             THEN [p |-> r.p, ok |-> FALSE, t |-> tri]
             ELSE parseFacetCall(r.p, s,
                                 IF g.tok = idNone THEN StoreCoordinate(tri, g, r.f)
                                 ELSE tri,
                                 k + 1)

\* skipToToken(idFacet | idEndsolid): the parser after the call and the
\* identity returned.
RECURSIVE skipToTokenCall(_, _)
skipToTokenCall(q, s) ==
    IF identRegexps(idFacetOrEndsolid, q.currentWord)
    THEN [p |-> q,
          id |-> IF identRegexps(idFacet, q.currentWord) THEN idFacet ELSE idEndsolid]
    ELSE LET n == nextWord(q, s)
         IN  IF ~n.ok THEN [p |-> n.p, id |-> idNone]
             ELSE skipToTokenCall(n.p, s)

\* TriangleLoop of Parse: the parser and the triangle list when the loop
\* is left.
RECURSIVE TriangleLoopCall(_, _, _)
TriangleLoopCall(q, s, tris) ==
    IF q.eof \/ isCurrentTokenIdent(q, idEndsolid)
    THEN [p |-> q, triangles |-> tris]
    ELSE LET k == IF ~isCurrentTokenIdent(q, idFacet)
                  THEN skipToTokenCall(addError(q, ErrInvalidExpectedToken), s)
                  ELSE [p |-> q, id |-> idFacet]
         IN  IF k.id \in {idEndsolid, idNone}
             THEN [p |-> k.p, triangles |-> tris]
             ELSE LET f == parseFacetCall(k.p, s, ZeroTriangle, 1)
                  IN  IF f.ok
                      THEN TriangleLoopCall(f.p, s, Append(tris, f.t))
                      ELSE TriangleLoopCall(
                               skipToTokenCall(facetSkipped(f.p), s).p, s, tris)

\* newParser and Parse on the source s, with the package variables name
\* and triangles holding nm and tris before: the parser, the package
\* variables and the result of Parse afterwards.
ParseCall(s, nm, tris) ==
    LET q0 == newParser(s)
        h == IF q0.eof
             THEN [p |-> addError([q0 EXCEPT !.HeaderError = TRUE], ErrEOF),
                   name |-> nm, triangles |-> tris]
             ELSE LET r == parseASCIIHeaderLine(q0, s, nm)
                      l == TriangleLoopCall([r.p EXCEPT !.HeaderError = ~r.ok], s, tris)
                  IN  [p |-> l.p, name |-> r.name, triangles |-> l.triangles]
        e == ParseSuccess(h.p, s)
    IN  [p |-> e.p, name |-> h.name, triangles |-> h.triangles, success |-> e.ok]

\* ------------------------------------------------------------------------
\* The inputs: what file.Reader finds at the path
\* ------------------------------------------------------------------------
\* A source is what os.Open and the line scanner deliver: open is FALSE when
\* os.Open fails, lines are the lines ScanLines returns, err says that the
\* scanner ends with an error (a read failure or an over-long line) instead
\* of an ordinary end of file.
Source(lines, err) == [open |-> TRUE, lines |-> lines, err |-> err]
NoFile == [open |-> FALSE, lines |-> <<>>, err |-> FALSE]

SeqsUpTo(S, n) == UNION {[1..k -> S] : k \in 0..n}

RECURSIVE Concat(_)
Concat(ss) == IF ss = <<>> THEN <<>> ELSE Head(ss) \o Concat(Tail(ss))

\* words of the inputs
wZero == <<48>>
wOne == <<49>>
wMinusTwo == <<45, 50>>
wA == <<97>>
wLop == <<108, 111, 112>>
wName == <<65>>

\* One facet block in the grammar of parseFacet, with coordinates 0 and d.
FacetWords(d) ==
    << idents[idFacet], idents[idNormal], d, wZero, wZero,
       idents[idOuter], idents[idLoop],
       idents[idVertex], wZero, d, wZero,
       idents[idVertex], wZero, wZero, d,
       idents[idVertex], d, d, wZero,
       idents[idEndloop], idents[idEndfacet] >>

\* Layouts: how a sequence of words is written as lines.
RECURSIVE JoinWords(_)
JoinWords(ws) ==
    IF ws = <<>> THEN <<>>
    ELSE IF Len(ws) = 1 THEN ws[1]
    ELSE ws[1] \o <<32>> \o JoinWords(Tail(ws))

BreakBefore(w) ==
    w \in {idents[idFacet], idents[idOuter], idents[idVertex],
           idents[idEndloop], idents[idEndfacet], idents[idEndsolid]}

RECURSIVE SplitLines(_, _, _)
SplitLines(ws, cur, acc) ==
    IF ws = <<>> THEN (IF cur = <<>> THEN acc ELSE Append(acc, JoinWords(cur)))
    ELSE IF BreakBefore(Head(ws)) /\ cur # <<>>
         THEN SplitLines(Tail(ws), <<Head(ws)>>, Append(acc, JoinWords(cur)))
         ELSE SplitLines(Tail(ws), Append(cur, Head(ws)), acc)

\* the usual layout of an STL file: a new line before facet, outer, vertex,
\* endloop, endfacet and endsolid
LayoutStl(ws) == SplitLines(ws, <<>>, <<>>)
\* every word on one line
LayoutOne(ws) == IF ws = <<>> THEN <<>> ELSE <<JoinWords(ws)>>
\* one word a line, indented and followed by a tab, after a blank line
LayoutLoose(ws) ==
    Concat([k \in 1..Len(ws) |-> << <<>>, <<32, 32>> \o ws[k] \o <<9>> >>])

HeaderLine == expectedASCIIHeaderPrefix \o wName

\* The edit family: MaxFacets or fewer well-formed facet blocks and
\* endsolid, with at most one edit: a word replaced, inserted or deleted,
\* or the input cut short.
RECURSIVE BaseWords(_)
BaseWords(n) ==
    IF n = 0 THEN <<idents[idEndsolid]>>
    ELSE FacetWords(IF n % 2 = 1 THEN wOne ELSE wMinusTwo) \o BaseWords(n - 1)

EditWords == {wA, wLop, idents[idFacet], idents[idEndsolid]}

Edited(ws) ==
    {ws}
    \cup {[ws EXCEPT ![k] = w] : k \in 1..Len(ws), w \in EditWords}
    \cup {SubSeq(ws, 1, k) \o <<w>> \o SubSeq(ws, k + 1, Len(ws)) :
              k \in 0..Len(ws), w \in EditWords}
    \cup {SubSeq(ws, 1, k - 1) \o SubSeq(ws, k + 1, Len(ws)) : k \in 1..Len(ws)}
    \cup {SubSeq(ws, 1, k) : k \in 0..Len(ws)}

EditFamily ==
    {Source(<<HeaderLine>> \o LayoutStl(ws), FALSE) :
         ws \in UNION {Edited(BaseWords(n)) : n \in 0..MaxFacets}}

\* The block family: MaxBlocks or fewer blocks, each a well-formed facet, a
\* facet with "lop" for "loop", a facet with the coordinate "a", or a stray
\* word; with or without endsolid; in the three layouts; with or without
\* a scanner error at the end.
Blocks ==
    { FacetWords(wMinusTwo),
      [FacetWords(wOne) EXCEPT ![7] = wLop],
      [FacetWords(wOne) EXCEPT ![9] = wA],
      <<wA>> }

Endings == { <<idents[idEndsolid]>>, <<>>, <<idents[idEndsolid], wName>> }

BlockWords ==
    {Concat(bs) \o e : bs \in SeqsUpTo(Blocks, MaxBlocks), e \in Endings}

BlockFamily ==
    {Source(<<HeaderLine>> \o LayoutStl(ws), err) : ws \in BlockWords, err \in BOOLEAN}
    \cup {Source(<<HeaderLine>> \o LayoutOne(ws), FALSE) : ws \in BlockWords}
    \cup {Source(<<HeaderLine>> \o LayoutLoose(ws), FALSE) : ws \in BlockWords}

\* The header family: the lines before the header (none, an empty line, a
\* line of one space), a first text line made of a prefix and MaxNameLen or
\* fewer bytes, and a short body; and the inputs without any text.
HeaderPrefixes ==
    { expectedASCIIHeaderPrefix,
      <<115, 111, 108, 105, 100>>,
      <<83, 111, 108, 105, 100, 32>>,
      <<32>> \o expectedASCIIHeaderPrefix,
      <<115, 111, 108, 105, 100, 9>> }

NameBytes == {65, 32, 0, 200, 31}

LeadingLines == { <<>>, << <<>> >>, << <<32>> >> }

HeaderBodies ==
    { LayoutStl(FacetWords(wOne) \o <<idents[idEndsolid]>>),
      LayoutStl(<<idents[idEndsolid]>>) }

HeaderFamily ==
    {Source(lead \o <<pre \o nm>> \o body, FALSE) :
         lead \in LeadingLines, pre \in HeaderPrefixes,
         nm \in SeqsUpTo(NameBytes, MaxNameLen), body \in HeaderBodies}
    \cup {Source(lead, err) : lead \in LeadingLines, err \in BOOLEAN}

Sources == EditFamily \cup BlockFamily \cup HeaderFamily \cup {NoFile}

\* the words of a line from offset off on, each with the offset where it ends
RECURSIVE WordsFrom(_, _)
WordsFrom(line, off) ==
    LET w == ScanWords(line, off)
    IN  IF w.ok THEN <<[text |-> w.text, off |-> w.off]>> \o WordsFrom(line, w.off)
        ELSE <<>>

\* every word of the input, in order, with its line number
AllTokens(s) ==
    Concat([k \in 1..Len(s.lines) |->
               LET ws == WordsFrom(s.lines[k], 0)
               IN  [j \in 1..Len(ws) |->
                       [line |-> k, off |-> ws[j].off, text |-> ws[j].text]]])

\* ------------------------------------------------------------------------
\* The process: package variables, one parser, the calls of CountTriangles
\* ------------------------------------------------------------------------
VARIABLES
    src,        \* what is at the file path
    name,       \* var name string
    triangles,  \* var triangles []Triangle
    p,          \* the parser of the current (or last) call
    t,          \* var t Triangle of the current facet
    step,       \* the step of parseFacet that runs next
    success,    \* the value Parse returned last
    pc,         \* where the current call is
    calls,      \* the calls of CountTriangles that have returned
    rets,       \* what they returned
    skipFrom,   \* history: the cursor when skipToToken was last called
    skipAdv,    \* history: the calls of nextWord that moved the cursor, in
                \* the current (or last) call of skipToToken
    loopAt,     \* history: the cursor at the head of the current (or last)
                \* iteration of TriangleLoop
    tokens      \* the words of the input with their places, AllTokens(src),
                \* kept for the properties; no action reads it

vars == <<src, name, triangles, p, t, step, success, pc, calls, rets, skipFrom,
          skipAdv, loopAt, tokens>>

\* The position of the cursor: the lines the line scanner has returned and
\* the bytes of the current line the word scanner has consumed.
Cursor(q) == [eof |-> q.eof, line |-> q.lineScanner, off |-> q.wordScanner]

Init ==
    /\ src \in Sources
    /\ name = <<>>
    /\ triangles = <<>>
    /\ p = zeroParser
    /\ t = ZeroTriangle
    /\ step = 1
    /\ success = FALSE
    /\ pc = "idle"
    /\ calls = 0
    /\ rets = <<>>
    /\ skipFrom = Cursor(zeroParser)
    /\ skipAdv = 0
    /\ loopAt = Cursor(zeroParser)
    /\ tokens = AllTokens(src)

\* CountTriangles up to the call of Parse: file.Reader succeeds, newParser
\* reads the first line.
CountTriangles ==
    /\ pc = "idle" /\ calls < MaxCalls /\ src.open
    /\ p' = newParser(src)
    /\ pc' = "Parse"
    /\ UNCHANGED <<src, name, triangles, t, step, success, calls, rets, skipFrom,
                   skipAdv, loopAt, tokens>>

\* CountTriangles when file.Reader fails: return "", -1, err
CountTrianglesNoFile ==
    /\ pc = "idle" /\ calls < MaxCalls /\ ~src.open
    /\ rets' = Append(rets, [name |-> <<>>, count |-> -1, err |-> <<ErrOpen>>])
    /\ calls' = calls + 1
    /\ UNCHANGED <<src, name, triangles, p, t, step, success, pc, skipFrom,
                   skipAdv, loopAt, tokens>>

\* Parse up to the triangle loop
Parse ==
    /\ pc = "Parse"
    /\ IF p.eof
       THEN /\ p' = addError([p EXCEPT !.HeaderError = TRUE], ErrEOF)
            /\ name' = name
            /\ pc' = "ParseReturn"
       ELSE LET r == parseASCIIHeaderLine(p, src, name)
            IN  /\ p' = [r.p EXCEPT !.HeaderError = ~r.ok]
                /\ name' = r.name
                /\ pc' = "TriangleLoop"
    /\ UNCHANGED <<src, triangles, t, step, success, calls, rets, skipFrom,
                   skipAdv, loopAt, tokens>>

\* The head of one iteration of TriangleLoop: the loop condition, the test
\* for a token that is not facet, and var t Triangle.
TriangleLoop ==
    /\ pc = "TriangleLoop"
    /\ IF ~p.eof /\ ~isCurrentTokenIdent(p, idEndsolid)
       THEN IF ~isCurrentTokenIdent(p, idFacet)
            THEN /\ p' = addError(p, ErrInvalidExpectedToken)
                 /\ pc' = "skipStray"
                 /\ skipFrom' = Cursor(p)
                 /\ skipAdv' = 0
                 /\ UNCHANGED <<t, step>>
            ELSE /\ pc' = "parseFacet"
                 /\ t' = ZeroTriangle
                 /\ step' = 1
                 /\ UNCHANGED <<p, skipFrom, skipAdv>>
       ELSE /\ pc' = "ParseReturn"
            /\ UNCHANGED <<p, t, step, skipFrom, skipAdv>>
    /\ loopAt' = Cursor(p)
    /\ UNCHANGED <<src, name, triangles, success, calls, rets, tokens>>

\* One iteration of the loop of skipToToken(idFacet | idEndsolid), called
\* after a stray token (pc = "skipStray") or after a facet that failed
\* (pc = "skipFacet", where the result is not used).
skipToToken ==
    /\ pc \in {"skipStray", "skipFacet"}
    /\ IF identRegexps(idFacetOrEndsolid, p.currentWord)
       THEN LET found == IF identRegexps(idFacet, p.currentWord)
                         THEN idFacet ELSE idEndsolid
            IN  /\ p' = p
                /\ skipAdv' = skipAdv
                /\ IF pc = "skipFacet"
                   THEN pc' = "TriangleLoop" /\ UNCHANGED <<t, step>>
                   ELSE IF found = idEndsolid
                        THEN pc' = "ParseReturn" /\ UNCHANGED <<t, step>>
                        ELSE pc' = "parseFacet" /\ t' = ZeroTriangle /\ step' = 1
       ELSE LET n == nextWord(p, src)
            IN  /\ p' = n.p
                /\ skipAdv' = IF Cursor(n.p) # Cursor(p) THEN skipAdv + 1 ELSE skipAdv
                /\ pc' = IF n.ok THEN pc
                         ELSE IF pc = "skipFacet" THEN "TriangleLoop" ELSE "ParseReturn"
                /\ UNCHANGED <<t, step>>
    /\ UNCHANGED <<src, name, triangles, success, calls, rets, skipFrom, loopAt,
                   tokens>>

\* One step of parseFacet, and what Parse does with its result once it is
\* known: append the triangle, or set TrianglesSkipped and skip.
parseFacet ==
    /\ pc = "parseFacet"
    /\ LET g == parseFacetSteps[step]
           r == IF g.tok = idNone THEN parseFloat32(p, src)
                ELSE consumeToken(p, src, g.tok) @@ [f |-> 0]
           tri == IF g.tok = idNone /\ r.ok THEN StoreCoordinate(t, g, r.f) ELSE t
       IN  /\ t' = tri
           /\ IF ~r.ok
              THEN /\ p' = facetSkipped(r.p)
                   /\ pc' = "skipFacet"
                   /\ skipFrom' = Cursor(r.p)
                   /\ skipAdv' = 0
                   /\ UNCHANGED <<triangles, step>>
              ELSE /\ p' = r.p
                   /\ UNCHANGED <<skipFrom, skipAdv>>
                   /\ IF step = Len(parseFacetSteps)
                      THEN /\ triangles' = Append(triangles, tri)
                           /\ pc' = "TriangleLoop"
                           /\ step' = step
                      ELSE /\ step' = step + 1
                           /\ UNCHANGED <<triangles, pc>>
    /\ UNCHANGED <<src, name, success, calls, rets, loopAt, tokens>>

\* The end of Parse: success is computed and returned.
ParseReturn ==
    /\ pc = "ParseReturn"
    /\ LET r == ParseSuccess(p, src)
       IN  p' = r.p /\ success' = r.ok
    /\ pc' = "Return"
    /\ UNCHANGED <<src, name, triangles, t, step, calls, rets, skipFrom,
                   skipAdv, loopAt, tokens>>

\* return name, len(triangles), nil
CountTrianglesReturn ==
    /\ pc = "Return"
    /\ rets' = Append(rets, [name |-> name, count |-> Len(triangles), err |-> <<>>])
    /\ calls' = calls + 1
    /\ pc' = "idle"
    /\ UNCHANGED <<src, name, triangles, p, t, step, success, skipFrom,
                   skipAdv, loopAt, tokens>>

Next ==
    \/ CountTriangles
    \/ CountTrianglesNoFile
    \/ Parse
    \/ TriangleLoop
    \/ skipToToken
    \/ parseFacet
    \/ ParseReturn
    \/ CountTrianglesReturn

Spec == Init /\ [][Next]_vars

\* ------------------------------------------------------------------------
\* Vocabulary of the properties: the input read without the parser
\* ------------------------------------------------------------------------
\* the number of the first line that has a word, 0 when no line has one
FirstTextLine(s) ==
    LET ts == AllTokens(s) IN IF ts = <<>> THEN 0 ELSE ts[1].line

\* the words after the first text line
BodyTokens(s) ==
    LET ts == AllTokens(s)
        first == IF ts = <<>> THEN 0 ELSE ts[1].line
    IN  SelectSeq(ts, LAMBDA tk : tk.line > first)
BodyWords(s) == LET ts == BodyTokens(s) IN [k \in 1..Len(ts) |-> ts[k].text]

\* The facet grammar of the input format: the keyword at each of the 21
\* places of a facet block, idNone where a number stands.
FacetGrammar ==
    << idFacet, idNormal, idNone, idNone, idNone, idOuter, idLoop,
       idVertex, idNone, idNone, idNone, idVertex, idNone, idNone, idNone,
       idVertex, idNone, idNone, idNone, idEndloop, idEndfacet >>

IsNumber(w) == ~ParseFloat(w).err
NumberOf(w) == ParseFloat(w).f

IsFacetBlock(b) ==
    /\ Len(b) = Len(FacetGrammar)
    /\ \A k \in 1..Len(FacetGrammar) :
          IF FacetGrammar[k] = idNone THEN IsNumber(b[k])
          ELSE b[k] = idents[FacetGrammar[k]]

TriangleOf(b) ==
    [Normal |-> <<NumberOf(b[3]), NumberOf(b[4]), NumberOf(b[5])>>,
     Vertices |-> << <<NumberOf(b[9]), NumberOf(b[10]), NumberOf(b[11])>>,
                     <<NumberOf(b[13]), NumberOf(b[14]), NumberOf(b[15])>>,
                     <<NumberOf(b[17]), NumberOf(b[18]), NumberOf(b[19])>> >>,
     Attr |-> 0]

\* block i (from 0) of a word sequence cut into facet-sized pieces
BlockAt(ws, i) == SubSeq(ws, Len(FacetGrammar) * i + 1, Len(FacetGrammar) * (i + 1))

\* A well-formed input: the source opens and reads without error, line 1
\* begins with "solid ", and the words after it are N facet blocks and
\* the word endsolid.
WellFormedInput(s) ==
    /\ s.open /\ ~s.err
    /\ Len(s.lines) >= 1
    /\ HasPrefix(s.lines[1], expectedASCIIHeaderPrefix)
    /\ LET ws == BodyWords(s)
           n == (Len(ws) - 1) \div Len(FacetGrammar)
       IN  /\ Len(ws) = Len(FacetGrammar) * n + 1
           /\ ws[Len(ws)] = idents[idEndsolid]
           /\ \A i \in 0..(n - 1) : IsFacetBlock(BlockAt(ws, i))

FacetCount(s) == (Len(BodyWords(s)) - 1) \div Len(FacetGrammar)

ExpectedTriangles(s) ==
    LET ws == BodyWords(s)
    IN  [i \in 1..((Len(ws) - 1) \div Len(FacetGrammar)) |-> TriangleOf(BlockAt(ws, i - 1))]

\* Parse of the first call of CountTriangles has returned
FirstParseReturned == pc = "Return" /\ calls = 0

\* ------------------------------------------------------------------------
\* The properties
\* ------------------------------------------------------------------------
\* C1: for every well-formed input, Parse started with empty name and
\* triangle accumulators returns true, leaves exactly the N triangles of
\* the N facet blocks in the accumulator, in input order, and records no
\* diagnostic.
C1_WellFormedInputParses ==
    (FirstParseReturned /\ WellFormedInput(src)) =>
        /\ success
        /\ triangles = ExpectedTriangles(src)
        /\ p.errors = <<>>
        /\ p.hist = <<>>

\* C1 witness: the first parse of a well-formed input with two different
\* facet blocks has returned.
C1_Witness ==
    /\ FirstParseReturned
    /\ WellFormedInput(src)
    /\ FacetCount(src) = 2
    /\ Len(triangles) = 2
    /\ triangles[1] # triangles[2]

\* C2: two calls of CountTriangles on the same input return the same name
\* and the same triangle count.
C2_SecondCallSameResult ==
    Len(rets) >= 2 => (rets[2].name = rets[1].name /\ rets[2].count = rets[1].count)

\* C3: the diagnostics collection holds every error addError was called
\* with during the parse, in order, none overwritten or cleared.
C3_DiagnosticsAccumulate ==
    /\ Len(p.errors) = Len(p.hist)
    /\ \A k \in 1..Len(p.hist) :
          k <= Len(p.errors) =>
              p.errors[k] = [line |-> p.hist[k].line, msg |-> p.hist[k].msg]

\* C4: when the source opens, CountTriangles returns a nil error exactly
\* when the parse was clean (it succeeded and recorded no diagnostic).
C4_ErrorReturnedIffProblem ==
    (pc = "idle" /\ calls >= 1 /\ src.open) =>
        ((rets[calls].err = <<>>) <=> (success /\ p.hist = <<>>))

\* the cursor q2 is further on in the input than the cursor q1
Advanced(q1, q2) ==
    \/ q2.eof /\ ~q1.eof
    \/ q2.lineScanner > q1.lineScanner
    \/ q2.lineScanner = q1.lineScanner /\ q2.wordScanner > q1.wordScanner

\* the input has the word endsolid after its first text line
HasEndsolid(s) ==
    LET ws == BodyWords(s)
    IN  \E k \in 1..Len(ws) : ws[k] = idents[idEndsolid]

\* the words of line k of the input, as a set of [text, off]
WordsOfLine(s, k) ==
    LET ws == WordsFrom(s.lines[k], 0)
    IN  {ws[i] : i \in 1..Len(ws)}

\* C5: Parse returns true only if the current token at the end of the facet
\* loop is exactly endsolid and Parse consumes it; an input with no endsolid
\* token after its header line never yields true.
C5_SuccessNeedsEndsolid ==
    [][/\ (pc = "ParseReturn" /\ success')
             => (p.currentWord = idents[idEndsolid] /\ ~p.eof /\ Advanced(p, p'))
       /\ (pc = "ParseReturn" /\ ~HasEndsolid(src)) => ~success'
      ]_vars

\* C5 witness: a first parse has returned false on an input with a valid
\* header whose facet blocks all parsed and which has no endsolid.
C5_Witness ==
    /\ FirstParseReturned
    /\ ~success /\ ~p.HeaderError /\ ~p.TrianglesSkipped
    /\ Len(triangles) >= 1
    /\ ~HasEndsolid(src)

\* C6: if the first line of the input does not begin with "solid ", the
\* header-error flag is set and Parse returns false.
C6_FirstLineMustBeHeader ==
    (pc = "Return" /\ Len(src.lines) >= 1
        /\ ~HasPrefix(src.lines[1], expectedASCIIHeaderPrefix))
    => (p.HeaderError /\ ~success)

\* C7: on an input without lines the parser is at end of stream after
\* newParser, and Parse sets the header-error flag, records ErrEOF, never
\* enters the facet loop, appends no triangle and returns false.
C7_EmptyInput ==
    (src.open /\ src.lines = <<>> /\ calls = 0) =>
        /\ pc \in {"idle", "Parse", "ParseReturn", "Return"}
        /\ triangles = <<>>
        /\ pc = "Parse" => p.eof
        /\ pc \in {"ParseReturn", "Return"} =>
              /\ p.HeaderError
              /\ p.hist # <<>>
              /\ p.hist[Len(p.hist)].msg = ErrEOF
              /\ p.errors = <<[line |-> 0, msg |-> ErrEOF]>>
        /\ pc = "Return" => ~success

\* C7 witness: the first parse of an input without lines has returned.
C7_Witness ==
    FirstParseReturned /\ src.open /\ src.lines = <<>> /\ ~src.err

\* the index in ts of the first token at or after cursor c whose text is
\* facet or endsolid, 0 when there is none
FirstSyncToken(ts, c) ==
    LET cand == {j \in 1..Len(ts) :
                    /\ \/ ts[j].line > c.line
                       \/ ts[j].line = c.line /\ ts[j].off >= c.off
                    /\ ts[j].text \in {idents[idFacet], idents[idEndsolid]}}
    IN  IF cand = {} \/ c.eof THEN 0
        ELSE CHOOSE j \in cand : \A i \in cand : j <= i

\* the index in ts of the token under the cursor of q, Len(ts) + 1 at the
\* end of the stream
TokenIndex(ts, q) ==
    IF q.eof THEN Len(ts) + 1
    ELSE CHOOSE j \in 1..Len(ts) : ts[j].line = q.lineScanner /\ ts[j].off = q.wordScanner

\* C8: a facet block in which a step fails appends nothing and sets
\* TrianglesSkipped, which stays set for the rest of the parse, so Parse
\* returns false; the loop goes on at the first facet or endsolid token at
\* or after the place of the failure; and a triangle is appended only for
\* 21 input words just before the cursor that form a whole facet block.
C8_FailedFacetIsSkipped ==
    [][/\ (pc = "ParseReturn" /\ p.TrianglesSkipped) => ~success'
       /\ (pc = "parseFacet" /\ pc' = "skipFacet") =>
             (triangles' = triangles /\ p'.TrianglesSkipped)
       /\ (p.TrianglesSkipped /\ pc # "idle") => p'.TrianglesSkipped
       /\ (pc = "skipFacet" /\ pc' = "TriangleLoop") =>
             LET ts == tokens
                 j == FirstSyncToken(ts, skipFrom)
             IN  IF j = 0 THEN p'.eof
                 ELSE /\ ~p'.eof
                      /\ p'.currentWord = ts[j].text
                      /\ TokenIndex(ts, p') = j
       /\ (triangles' # triangles) =>
             LET ts == tokens
                 e == TokenIndex(ts, p')
                 n == Len(FacetGrammar)
                 b == [k \in 1..n |-> ts[e - n - 1 + k].text]
             IN  /\ e > n
                 /\ ts[e - n].line > FirstTextLine(src)
                 /\ IsFacetBlock(b)
                 /\ triangles' = Append(triangles, TriangleOf(b))
      ]_vars

\* C8 witness: in the first parse a facet was skipped, the loop is back at
\* a facet token, and a facet before the failure is in the list.
C8_Witness ==
    /\ pc = "TriangleLoop" /\ calls = 0
    /\ p.TrianglesSkipped
    /\ p.currentWord = idents[idFacet]
    /\ Len(triangles) = 1

\* C9: while the cursor is not at the end of the stream, the line counter
\* is the number, counting blank lines from 1, of the input line that holds
\* the current word; and every diagnostic about a token carries the number
\* of the line that holds that token, an invalid-float diagnostic the line
\* of the word that is no number.
C9_LineNumberOfToken ==
    /\ (pc # "idle" /\ ~p.eof) =>
          /\ p.line \in 1..Len(src.lines)
          /\ p.currentLine = src.lines[p.line]
          /\ \E j \in 1..Len(tokens) :
                 /\ tokens[j].line = p.line
                 /\ tokens[j].text = p.currentWord
                 /\ tokens[j].off = p.wordScanner
    /\ \A k \in 1..Len(p.hist) :
          LET h == p.hist[k]
          IN  /\ (~h.eof /\ h.msg # ErrScanner) =>
                    /\ h.line \in 1..Len(src.lines)
                    /\ \E j \in 1..Len(tokens) :
                           /\ tokens[j].line = h.line
                           /\ tokens[j].text = h.word
                           /\ tokens[j].off = h.off
              /\ h.msg = ErrInvalidFloat => (~h.eof /\ ~IsNumber(h.word))

\* C9 witness: an invalid-float diagnostic for the word "a" on a line that
\* comes after a blank line.
C9_Witness ==
    \E k \in 1..Len(p.hist) :
        /\ p.hist[k].msg = ErrInvalidFloat
        /\ p.hist[k].word = wA
        /\ p.hist[k].line > 2
        /\ \E i \in 1..(p.hist[k].line - 1) : src.lines[i] = <<>>

\* the longest prefix of b whose bytes are all non-zero and below 128
LongestASCIIPrefix(b) ==
    LET n == CHOOSE n \in 0..Len(b) :
                 /\ \A k \in 1..n : b[k] # 0 /\ b[k] < 128
                 /\ n = Len(b) \/ b[n + 1] = 0 \/ b[n + 1] >= 128
    IN  SubSeq(b, 1, n)

\* C10: for a header line that begins with "solid ", the name is the
\* longest prefix of the bytes after "solid " in which every byte is
\* non-zero and below 128, and the header step records no error (the one
\* error it can record is the line source's own, on reading the next line).
C10_NameIsLongestASCIIPrefix ==
    [][(pc = "Parse" /\ ~p.eof
          /\ HasPrefix(src.lines[p.lineScanner], expectedASCIIHeaderPrefix))
       => /\ name' = LongestASCIIPrefix(
                        SubSeq(src.lines[p.lineScanner],
                               Len(expectedASCIIHeaderPrefix) + 1,
                               Len(src.lines[p.lineScanner])))
          /\ ~p'.HeaderError
          /\ \A k \in (Len(p.hist) + 1)..Len(p'.hist) : p'.hist[k].msg = ErrScanner
      ]_vars

\* C10 witness: the header "solid " + byte 200 + "A" was parsed: the name is
\* empty although an ASCII byte follows the byte 200, and nothing was
\* recorded.
C10_Witness ==
    /\ pc = "TriangleLoop" /\ calls = 0
    /\ src.lines[1] = expectedASCIIHeaderPrefix \o <<200, 65>>
    /\ name = <<>>
    /\ ~p.HeaderError
    /\ p.hist = <<>>

\* the input s with the words after its header line written on one line
OneLineBody(s) ==
    LET first == FirstTextLine(s)
    IN  IF first = 0 THEN s
        ELSE [s EXCEPT !.lines = SubSeq(s.lines, 1, first) \o LayoutOne(BodyWords(s))]

\* C11: the layout of the words after the header line is insignificant:
\* Parse returns the same success value and the same triangle list as it
\* does on the input that has the same lines up to the header line and the
\* same words after it, all on one line.  (Two inputs with the same header
\* line and the same words after it have the same one-line form.)
C11_LayoutInsignificant ==
    (FirstParseReturned /\ src.open) =>
        LET r == ParseCall(OneLineBody(src), <<>>, <<>>)
        IN  /\ success = r.success
            /\ triangles = r.triangles

\* C11 witness: the first parse has returned a triangle and success for an
\* input whose body has blank lines and one word a line.
C11_Witness ==
    /\ FirstParseReturned
    /\ src.open
    /\ success
    /\ Len(triangles) >= 1
    /\ \E k \in 1..Len(src.lines) : k > FirstTextLine(src) /\ src.lines[k] = <<>>
    /\ src.lines # OneLineBody(src).lines

\* the bytes of the header line after "solid ", when Parse is about to read
\* a header line that begins with "solid "
AtHeader ==
    /\ pc = "Parse" /\ ~p.eof
    /\ HasPrefix(src.lines[p.lineScanner], expectedASCIIHeaderPrefix)
AfterSolid ==
    SubSeq(src.lines[p.lineScanner], Len(expectedASCIIHeaderPrefix) + 1,
           Len(src.lines[p.lineScanner]))
IsControlByte(b) == b \in 1..31 \/ b = 127
IsPrintableByte(b) == b \in 32..126

\* C12 as stated: the name ends at the first byte after "solid " that is
\* NUL or not printable 7-bit, so a control byte (1..31 or 127) truncates
\* the name as a byte of 128 or more does: the name holds printable bytes
\* only, and all of them up to the first other byte.
C12_ControlByteTruncates ==
    [][AtHeader =>
          /\ \A k \in 1..Len(name') : IsPrintableByte(name'[k])
          /\ name' = SubSeq(AfterSolid, 1, Len(name'))
          /\ Len(name') < Len(AfterSolid) =>
                 ~IsPrintableByte(AfterSolid[Len(name') + 1])
      ]_vars

\* C12 amended: the name ends at the first byte after "solid " that is NUL
\* or 128 and more, and at no other: a control byte (1..31 or 127) before
\* that byte does not truncate the name, it is part of it.
C12_ControlByteKept ==
    [][AtHeader =>
          LET rest == AfterSolid
              stops == {k \in 1..Len(rest) : rest[k] = 0 \/ rest[k] >= 128}
          IN  /\ name' = SubSeq(rest, 1, Len(name'))
              /\ \A k \in 1..Len(rest) :
                     (IsControlByte(rest[k]) /\ \A j \in stops : k < j)
                         => (k <= Len(name') /\ name'[k] = rest[k])
              /\ Len(name') < Len(rest) => (Len(name') + 1) \in stops
              /\ \A j \in stops : j > Len(name')
      ]_vars

\* C12 witness: a header whose text after "solid " has the control byte 31
\* before an ASCII letter was parsed, and the name holds both bytes.
C12_Witness ==
    /\ pc = "TriangleLoop" /\ calls = 0
    /\ src.lines[1] = expectedASCIIHeaderPrefix \o <<31, 65>>
    /\ name = <<31, 65>>

\* the word w is what step g of parseFacet accepts
StepAccepts(g, w) ==
    IF g.tok = idNone THEN IsNumber(w) ELSE w = idents[g.tok]

\* C13: in parseFacet a step that succeeds moves the cursor to the next
\* word of the input (or to the end of the stream after the last word),
\* and a step that fails leaves the line number, the current word, the
\* end-of-stream flag and the scanners as they were; so when parseFacet
\* returns false the current word is the word the failing step was tried
\* on: the words before it, back to the facet token, are the ones the
\* steps before accepted, and this one is not what the step accepts.
C13_StepAdvancesOneWordOrNone ==
    [][pc = "parseFacet" =>
          LET ts == tokens
              i == TokenIndex(ts, p)
          IN  /\ i >= step
              /\ \A k \in 1..(step - 1) :
                     StepAccepts(parseFacetSteps[k], ts[i - step + k].text)
              /\ IF pc' = "skipFacet"
                 THEN /\ p'.line = p.line
                      /\ p'.currentWord = p.currentWord
                      /\ p'.eof = p.eof
                      /\ Cursor(p') = Cursor(p)
                      /\ p.eof \/ ~StepAccepts(parseFacetSteps[step], ts[i].text)
                      /\ ~p.eof => p'.currentWord = ts[i].text
                 ELSE /\ ~p.eof
                      /\ StepAccepts(parseFacetSteps[step], ts[i].text)
                      /\ TokenIndex(ts, p') = i + 1
                      /\ ~p'.eof => /\ p'.currentWord = ts[i + 1].text
                                    /\ p'.line = ts[i + 1].line
      ]_vars

\* C13 witness: parseFacet has failed at its ninth step on the word "a",
\* and the current word is that word.
C13_Witness ==
    /\ pc = "skipFacet"
    /\ step = 9
    /\ p.currentWord = wA
    /\ Cursor(p) = skipFrom
    /\ Len(triangles) = 1

\* C14: every step of parseFacet that fails records a diagnostic, an
\* unexpected-token error naming the expected keyword for a keyword step
\* and an invalid-float error for a numeric step; so a call of parseFacet
\* that returns false has recorded at least one diagnostic.
C14_FailedStepRecordsDiagnostic ==
    [][(pc = "parseFacet" /\ pc' = "skipFacet") =>
          /\ Len(p'.hist) = Len(p.hist) + 1
          /\ p'.hist[Len(p'.hist)].msg =
                 IF parseFacetSteps[step].tok = idNone THEN ErrInvalidFloat
                 ELSE errInvalidToken(parseFacetSteps[step].tok)
      ]_vars

\* the words of the input that a cursor at c has still to pass: the word
\* under it and the words after it, none at the end of the stream
RemainingWords(ts, c) ==
    IF c.eof THEN 0
    ELSE Cardinality({j \in 1..Len(ts) :
                         \/ ts[j].line > c.line
                         \/ ts[j].line = c.line /\ ts[j].off >= c.off})

\* the places of a call in the order Parse can pass through them without
\* moving the cursor
Rank(at, k) ==
    CASE at = "idle" -> 0
      [] at = "Return" -> 1
      [] at = "ParseReturn" -> 2
      [] at = "parseFacet" /\ k = 1 -> 3
      [] at = "skipStray" -> 4
      [] at = "TriangleLoop" -> 5
      [] at = "skipFacet" -> 6
      [] at = "parseFacet" /\ k > 1 -> 7
      [] at = "Parse" -> 8

\* C15: Parse terminates on every finite input.  Every step of a call
\* either lowers the number of words the cursor has still to pass or leaves
\* it and moves to a place of lower rank, so no call runs for ever; an
\* iteration of the facet loop ends with fewer words to pass than it began
\* with; and in a call of skipToToken every call of nextWord that moves the
\* cursor passes exactly one word, so their number is at most the number
\* of words that remained when skipToToken was called.
C15_ParseTerminates ==
    [][pc # "idle" =>
          LET ts == tokens
              before == RemainingWords(ts, Cursor(p))
              after == RemainingWords(ts, Cursor(p'))
          IN  /\ \/ after < before
                 \/ after = before /\ Rank(pc', step') < Rank(pc, step)
              /\ (pc \in {"parseFacet", "skipFacet", "skipStray"}
                     /\ pc' \in {"TriangleLoop", "ParseReturn"}) =>
                     after < RemainingWords(ts, loopAt)
              /\ pc \in {"skipStray", "skipFacet"} =>
                     /\ skipAdv' \in {skipAdv, skipAdv + 1}
                     /\ after = before - (skipAdv' - skipAdv)
                     /\ skipAdv' <= RemainingWords(ts, skipFrom)
                     /\ skipAdv' = RemainingWords(ts, skipFrom) - after
      ]_vars

\* C15 witness: a call of skipToToken has passed over three words or more
\* and stopped with words left, in an iteration of the loop that is not the
\* first.
C15_Witness ==
    /\ pc = "TriangleLoop"
    /\ skipAdv >= 3
    /\ ~p.eof
    /\ Len(triangles) >= 1
    /\ loopAt # skipFrom

\* the place of a token: its line and the offset where it ends
PlaceOf(tk) == [line |-> tk.line, off |-> tk.off]
IsPrefixOf(a, b) == Len(a) <= Len(b) /\ a = SubSeq(b, 1, Len(a))

\* what holds of the flag, the current word and the line number from one
\* step of a parser to the next
CursorMovesForward ==
    pc # "idle" =>
        /\ p.eof => (p'.eof /\ p'.currentWord = <<>>)
        /\ p'.line >= p.line
        /\ IsPrefixOf(p.visited, p'.visited)

\* C16 as stated: once the end-of-stream flag is set it stays set and the
\* current word stays empty, the line number never decreases, and the
\* words the cursor visits are the words of the input in order, each once:
\* the k-th word visited is the k-th word of the input, and at the end of
\* the stream every word has been visited.
C16_VisitsEveryWord ==
    [][/\ CursorMovesForward
       /\ LET ts == tokens
          IN  /\ Len(p'.visited) <= Len(ts)
              /\ \A k \in 1..Len(p'.visited) :
                     k <= Len(ts) => p'.visited[k] = PlaceOf(ts[k])
              /\ p'.eof => Len(p'.visited) = Len(ts)
      ]_vars

\* the words a parse can visit: the first word of the header line (the
\* first line that has a word) and the words of the lines after it
VisitableTokens(ts) ==
    IF ts = <<>> THEN <<>>
    ELSE <<ts[1]>> \o SelectSeq(ts, LAMBDA tk : tk.line > ts[1].line)

\* C16 amended: once the end-of-stream flag is set it stays set and the
\* current word stays empty, the line number never decreases, and the
\* words the cursor visits are, in order and each once, the first word of
\* the header line and then the words of the lines after the header line;
\* the other words of the header line are never visited.  The current word
\* is the last word visited, and at the end of the stream every word after
\* the header line has been visited.
C16_VisitsWordsAfterHeaderLine ==
    [][/\ CursorMovesForward
       /\ LET vs == VisitableTokens(tokens)
              n == Len(p'.visited)
          IN  /\ n <= Len(vs)
              /\ \A k \in 1..n : p'.visited[k] = PlaceOf(vs[k])
              /\ p'.eof => (n = Len(vs) /\ p'.currentWord = <<>>)
              /\ (~p'.eof /\ n > 0) =>
                     /\ p'.currentWord = vs[n].text
                     /\ p'.line = vs[n].line
      ]_vars

\* C16 witness: a parse has reached the end of a stream whose header line
\* has a second word, after visiting every word but that one.
C16_Witness ==
    /\ p.eof
    /\ p.currentWord = <<>>
    /\ Len(p.visited) >= 3
    /\ Len(tokens) = Len(p.visited) + 1
    /\ tokens[2].line = tokens[1].line

\* C17: skipToToken(idFacet | idEndsolid) stops at the first token, at or
\* after the current one, that is exactly facet or exactly endsolid.  At
\* each call: it returns idFacet with the current word facet, idEndsolid
\* with the current word endsolid, or idNone with the end-of-stream flag
\* set; the word it stops at is the first of the two keywords from the
\* cursor on, and it returns idNone only when there is none.  And when the
\* recovery after a stray token gets idEndsolid or idNone, the loop ends:
\* Parse goes to its last statement and returns with the triangle list as
\* it was; when it gets idFacet, parseFacet starts at that token.
C17_SkipStopsAtFirstKeyword ==
    [][/\ (pc \in {"skipStray", "skipFacet"} /\ skipAdv = 0 /\ Cursor(p) = skipFrom) =>
             LET ts == tokens
                 from == TokenIndex(ts, p)
                 j == FirstSyncToken(ts, skipFrom)
                 k == skipToTokenCall(p, src)
                 to == TokenIndex(ts, k.p)
             IN  /\ k.id \in {idFacet, idEndsolid, idNone}
                 /\ k.id = idFacet => (~k.p.eof /\ k.p.currentWord = idents[idFacet])
                 /\ k.id = idEndsolid => (~k.p.eof /\ k.p.currentWord = idents[idEndsolid])
                 /\ k.id = idNone => (k.p.eof /\ k.p.currentWord = <<>> /\ j = 0)
                 /\ k.id # idNone => (j = to /\ ts[to].text = k.p.currentWord)
                 /\ from <= to
                 /\ Len(k.p.visited) - Len(p.visited) =
                        IF p.eof THEN 0 ELSE (IF k.p.eof THEN to - 1 ELSE to) - from
                 /\ \A i \in from..(to - 1) :
                        ts[i].text \notin {idents[idFacet], idents[idEndsolid]}
       /\ (pc = "skipStray" /\ pc' # "skipStray") =>
             LET k == skipToTokenCall(p, src)
             IN  /\ p' = k.p
                 /\ triangles' = triangles
                 /\ IF k.id \in {idEndsolid, idNone}
                    THEN pc' = "ParseReturn"
                    ELSE pc' = "parseFacet" /\ step' = 1 /\ t' = ZeroTriangle
       /\ pc = "ParseReturn" => (pc' = "Return" /\ triangles' = triangles)
      ]_vars

\* C17 witness: after a triangle was stored, the recovery from a stray
\* token has passed over a word and stopped at endsolid, and the loop has
\* ended there.
C17_Witness ==
    /\ pc = "ParseReturn"
    /\ loopAt = skipFrom
    /\ skipAdv >= 1
    /\ p.currentWord = idents[idEndsolid]
    /\ Len(triangles) >= 1
    /\ p.hist # <<>>
    /\ p.hist[Len(p.hist)].msg = ErrInvalidExpectedToken

\* C18 as stated: Parse returns true only if no diagnostic was recorded
\* during the parse; so stray words between well-formed facet blocks,
\* which record an "expected facet or endsolid" error, rule success out.
\* (Stated for the inputs the line source reads without error.)
C18_SuccessMeansNoDiagnostic ==
    (pc = "Return" /\ success /\ ~src.err) => p.hist = <<>>

\* C18 amended: Parse returns true only if neither flag is set and the
\* only diagnostics recorded are "expected facet or endsolid" errors, each
\* at a stray word (a word that is neither facet nor endsolid, met at the
\* head of the loop), and a read error of the line source, recorded last:
\* no diagnostic of the header, of a keyword or number of a facet, or of
\* an empty input.  Stray words between well-formed facet blocks that end
\* with endsolid do not prevent success.
C18_SuccessAllowsStrayTokenDiagnostics ==
    (pc = "Return" /\ success) =>
        /\ ~p.HeaderError
        /\ ~p.TrianglesSkipped
        /\ \A k \in 1..Len(p.hist) :
               \/ /\ p.hist[k].msg = ErrInvalidExpectedToken
                  /\ ~p.hist[k].eof
                  /\ p.hist[k].word \notin {idents[idFacet], idents[idEndsolid]}
               \/ /\ p.hist[k].msg = ErrScanner
                  /\ k = Len(p.hist)
                  /\ src.err

\* C18 witness: Parse has returned true for an input with a stray word
\* between two well-formed facet blocks, with the one diagnostic of the
\* stray word recorded.
C18_Witness ==
    /\ pc = "Return" /\ success
    /\ Len(triangles) = 2
    /\ calls = 0
    /\ Len(p.hist) = 1
    /\ p.hist[1].msg = ErrInvalidExpectedToken
    /\ p.hist[1].word = wA

\* the index in BodyTokens(s) of the first endsolid after the header line,
\* 0 when there is none
FirstEndsolid(s) ==
    LET ts == BodyTokens(s)
        cand == {j \in 1..Len(ts) : ts[j].text = idents[idEndsolid]}
    IN  IF cand = {} THEN 0 ELSE CHOOSE j \in cand : \A i \in cand : j <= i

\* the input s cut off after the token tk, read with or without an error
\* of the line source at its end
CutAfter(s, tk, e) ==
    Source(SubSeq(s.lines, 1, tk.line - 1) \o <<SubSeq(s.lines[tk.line], 1, tk.off)>>, e)

\* one list of diagnostics is the other, or the other and a read error of
\* the line source recorded last
SameButReadError(h1, h2) ==
    \/ h1 = h2
    \/ Len(h1) = Len(h2) + 1 /\ SubSeq(h1, 1, Len(h2)) = h2 /\ h1[Len(h1)].msg = ErrScanner
    \/ Len(h2) = Len(h1) + 1 /\ SubSeq(h2, 1, Len(h1)) = h1 /\ h2[Len(h2)].msg = ErrScanner

\* C19 as stated: nothing after the first endsolid the loop reaches has an
\* influence: the success value, the triangle list and the diagnostics are
\* those of the input that ends with that endsolid, whatever comes after
\* it in the one and in the other.
C19_NothingAfterEndsolidMatters ==
    (FirstParseReturned /\ src.open /\ FirstEndsolid(src) # 0) =>
        LET tk == BodyTokens(src)[FirstEndsolid(src)]
        IN  \A e \in BOOLEAN :
                LET r == ParseCall(CutAfter(src, tk, e), <<>>, <<>>)
                IN  /\ success = r.success
                    /\ triangles = r.triangles
                    /\ p.hist = r.p.hist

\* C19 amended: what comes after the first endsolid the loop reaches has
\* no influence on the success value and on the triangle list, and none
\* on the diagnostics but one: the last statement of Parse reads the word
\* after endsolid, and a read error of the line source met there is
\* recorded.  The diagnostics of two inputs that are the same up to that
\* endsolid are the same up to such a last entry.
C19_OnlyReadErrorAfterEndsolidMatters ==
    (FirstParseReturned /\ src.open /\ FirstEndsolid(src) # 0) =>
        LET tk == BodyTokens(src)[FirstEndsolid(src)]
        IN  \A e \in BOOLEAN :
                LET r == ParseCall(CutAfter(src, tk, e), <<>>, <<>>)
                IN  /\ success = r.success
                    /\ triangles = r.triangles
                    /\ SameButReadError(p.hist, r.p.hist)
                    /\ p.hist # r.p.hist => (e \/ src.err)

\* C19 witness: Parse has returned true with one triangle for an input in
\* which a whole facet block follows the first endsolid.
C19_Witness ==
    /\ FirstParseReturned /\ src.open
    /\ success
    /\ Len(triangles) = 1
    /\ FirstEndsolid(src) # 0
    /\ LET ts == BodyTokens(src)
       IN  /\ Len(ts) >= FirstEndsolid(src) + Len(FacetGrammar)
           /\ ts[FirstEndsolid(src) + 1].text = idents[idFacet]

\* the first call from newParser to the return of Parse, as one step, gives
\* what the steps give
ParseCallIsTheSteps ==
    (FirstParseReturned /\ src.open) =>
        ParseCall(src, <<>>, <<>>) =
            [p |-> p, name |-> name, triangles |-> triangles, success |-> success]
====
